---- MODULE Spec2Model ----
(***************************************************************************)
(* A model of the argument-resolution core of the cli package:             *)
(*   - Command.Run (token reordering, flag parsing, leaf execution),       *)
(*   - BoolFlag.Apply / boolValue.Set (precedence of a boolean flag),      *)
(*   - mapInputSource's scalar getters and nestedVal (dotted lookup).      *)
(* Go strings are sequences of one-character strings, so that prefixes,    *)
(* slices and splits are computed and not assumed.                         *)
(***************************************************************************)
EXTENDS Integers, Sequences, FiniteSets, TLC

\* Bound: the number of tokens that follow the command name.
MaxArgs == 3

\* Bound: the number of command-line tokens parsed for the boolean flag.
MaxCli == 2

\* Bound: how deep the mappings of the input source's tree nest.
MaxDepth == 2

VARIABLES
    c,            \* the Command being run (receiver of Command.Run)
    args,         \* ctx.Args(): the command name followed by its tokens
    flagArgs,     \* the reordered tokens handed to set.Parse
    origin,       \* for each element of flagArgs, its index in the tail of args
    set,          \* the flag.FlagSet built by flagSet(c.Name, c.Flags)
    pc,           \* position inside Command.Run
    err,          \* err of set.Parse
    nerr,         \* nerr of normalizeFlags
    actionCalls,  \* how many times c.Action was invoked
    actionArgs,   \* context.Args() seen by c.Action
    ret,          \* the error returned by Command.Run
    f,            \* the BoolFlag (receiver of BoolFlag.Apply)
    defaultValue, \* f.Value as constructed, before Apply
    fromEnv,      \* what flagFromEnvOrFile(f.EnvVars, f.FilePath) returns
    cliArgs,      \* the command-line tokens parsed after Apply
    bset,         \* the flag.FlagSet the flag is applied to
    bpc,          \* position in the resolution of the flag
    applyErr,     \* the error returned by BoolFlag.Apply
    resolved,     \* lookupBool under each name, after the parse
    valueMap,     \* fsm.valueMap of the mapInputSource
    key,          \* the name a typed getter is asked for
    getter,       \* the typed getter that was called
    result        \* what the getter returned: (value, error)

runVars == <<c, args, flagArgs, origin, set, pc, err, nerr, actionCalls, actionArgs, ret>>

boolVars == <<f, defaultValue, fromEnv, cliArgs, bset, bpc, applyErr, resolved>>

mapVars == <<valueMap, key, getter, result>>

vars == <<runVars, boolVars, mapVars>>

notRunVars == <<boolVars, mapVars>>

notBoolVars == <<runVars, mapVars>>

notMapVars == <<runVars, boolVars>>

Nil == "nil"

\* A part of the package that a specification does not exercise stays idle.
RunIdle ==
    /\ c = Nil /\ args = Nil /\ flagArgs = Nil /\ origin = Nil /\ set = Nil
    /\ pc = Nil /\ err = Nil /\ nerr = Nil
    /\ actionCalls = 0 /\ actionArgs = Nil /\ ret = Nil

BoolIdle ==
    /\ f = Nil /\ defaultValue = Nil /\ fromEnv = Nil /\ cliArgs = Nil
    /\ bset = Nil /\ bpc = Nil /\ applyErr = Nil /\ resolved = Nil

MapIdle ==
    /\ valueMap = Nil /\ key = Nil /\ getter = Nil /\ result = Nil

-----------------------------------------------------------------------------
(* Go strings and slices *)

\* strings.HasPrefix(s, prefix)
HasPrefix(s, prefix) ==
    /\ Len(s) >= Len(prefix)
    /\ SubSeq(s, 1, Len(prefix)) = prefix

\* s[n:] for a Go string or slice (n is the zero-based start)
SliceFrom(s, n) == SubSeq(s, n + 1, Len(s))

\* Mutant of InsertAt: the element is always put at the front.
InsertAtFront(s, idx, val) == <<val>> \o s

\* s = append(s, ""); copy(s[idx+1:], s[idx:]); s[idx] = val
InsertAt(s, idx, val) == SubSeq(s, 1, idx) \o <<val>> \o SubSeq(s, idx + 1, Len(s))

-----------------------------------------------------------------------------
(* The tokens and flags of the modelled commands *)

Dash == <<"-">>
DashDash == <<"-", "-">>
Empty == <<>>
NameS == <<"s">>
NameB == <<"b">>
NameU == <<"u">>
NameHelp == <<"h", "e", "l", "p">>
NameH == <<"h">>
NameCompletion == <<"g", "e", "n">>
CmdName == <<"c", "m", "d">>
Pos == <<"a">>

Tokens ==
    { DashDash \o NameS, Dash \o NameS, DashDash \o NameB, DashDash \o NameU,
      Dash, DashDash, Empty, Pos }

RECURSIVE SeqsUpTo(_, _)
SeqsUpTo(S, n) ==
    IF n = 0 THEN { <<>> }
    ELSE LET shorter == SeqsUpTo(S, n - 1)
         IN  shorter \cup { Append(s, x) : s \in { t \in shorter : Len(t) = n - 1 }, x \in S }

\* c.Flags: flag name |-> TRUE when its Value is a boolFlag (IsBoolFlag() = true)
FlagConfigs ==
    { [n \in {NameS, NameB} |-> n = NameB],
      [n \in {NameS, NameB} |-> TRUE],
      [n \in {NameB} |-> TRUE] }

-----------------------------------------------------------------------------
(* strconv and the boolean flag value (flag_bool.go) *)

StrTrue == <<"t", "r", "u", "e">>
StrFalse == <<"f", "a", "l", "s", "e">>

TrueStrings ==
    { <<"1">>, <<"t">>, <<"T">>, <<"T", "R", "U", "E">>, StrTrue, <<"T", "r", "u", "e">> }

FalseStrings ==
    { <<"0">>, <<"f">>, <<"F">>, <<"F", "A", "L", "S", "E">>, StrFalse, <<"F", "a", "l", "s", "e">> }

\* strconv.ParseBool(s): (v, err)
ParseBool(s) ==
    IF s \in TrueStrings THEN [v |-> TRUE, ok |-> TRUE]
    ELSE IF s \in FalseStrings THEN [v |-> FALSE, ok |-> TRUE]
    ELSE [v |-> FALSE, ok |-> FALSE]

\* strconv.FormatBool(b)
FormatBool(b) == IF b THEN StrTrue ELSE StrFalse

-----------------------------------------------------------------------------
(* flag.FlagSet: formal maps a name to its flag (isBool, the cell its Value  *)
(* writes to); store maps a cell to its current value; args is what is left  *)
(* to parse; log records every successful Value.Set as <<name, value>>.      *)

\* set.Lookup(name): whether a flag of that name is registered
Lookup(formal, name) == name \in DOMAIN formal

\* (b *boolValue) Set(s)
boolValueSet(fs, name, s) ==
    LET p == ParseBool(s)
    IN  IF ~p.ok THEN [fs EXCEPT !.err = "parse error"]
        ELSE [fs EXCEPT !.store[fs.formal[name].cell] = p.v,
                        !.count = IF fs.hasCount THEN @ + 1 ELSE @,
                        !.log = Append(@, <<name, p.v>>)]

\* flag.Value.Set(value) of a value-taking flag (a string flag: never fails)
valueSet(fs, name, value) ==
    [fs EXCEPT !.store[fs.formal[name].cell] = value,
               !.log = Append(@, <<name, value>>)]

\* The index of the first "=" of name after its first character, 0 when none.
IndexEq(name) ==
    LET hits == { i \in 2..Len(name) : name[i] = "=" }
    IN  IF hits = {} THEN 0 ELSE CHOOSE i \in hits : \A j \in hits : i <= j

\* (f *FlagSet) parseOne(): (seen, err); err is left in fs.err
parseOne(fs) ==
    IF Len(fs.args) = 0 THEN [fs |-> fs, seen |-> FALSE]
    ELSE
      LET s == fs.args[1] IN
      IF Len(s) < 2 \/ s[1] # "-" THEN [fs |-> fs, seen |-> FALSE]
      ELSE
        LET numMinuses == IF s[2] = "-" THEN 2 ELSE 1 IN
        IF numMinuses = 2 /\ Len(s) = 2
        THEN [fs |-> [fs EXCEPT !.args = Tail(@)], seen |-> FALSE]
        ELSE
          LET name0 == SliceFrom(s, numMinuses) IN
          IF Len(name0) = 0 \/ name0[1] = "-" \/ name0[1] = "="
          THEN [fs |-> [fs EXCEPT !.err = "bad flag syntax"], seen |-> FALSE]
          ELSE
            LET eq == IndexEq(name0)
                hasValue == eq # 0
                name == IF hasValue THEN SubSeq(name0, 1, eq - 1) ELSE name0
                value == IF hasValue THEN SliceFrom(name0, eq) ELSE <<>>
                popped == [fs EXCEPT !.args = Tail(@)]
            IN
            IF ~Lookup(fs.formal, name)
            THEN [fs |-> [popped EXCEPT !.err =
                            IF name = NameHelp \/ name = NameH
                            THEN "flag: help requested"
                            ELSE "flag provided but not defined"],
                  seen |-> FALSE]
            ELSE IF fs.formal[name].isBool
            THEN LET after == boolValueSet(popped, name, IF hasValue THEN value ELSE StrTrue)
                 IN  IF after.err # Nil
                     THEN [fs |-> [after EXCEPT !.err = "invalid boolean value"], seen |-> FALSE]
                     ELSE [fs |-> after, seen |-> TRUE]
            ELSE IF ~hasValue /\ Len(popped.args) = 0
            THEN [fs |-> [popped EXCEPT !.err = "flag needs an argument"], seen |-> FALSE]
            ELSE IF ~hasValue
            THEN [fs |-> valueSet([popped EXCEPT !.args = Tail(@)], name, popped.args[1]),
                  seen |-> TRUE]
            ELSE [fs |-> valueSet(popped, name, value), seen |-> TRUE]

RECURSIVE ParseLoop(_)
ParseLoop(fs) ==
    LET r == parseOne(fs)
    IN  IF r.seen THEN ParseLoop(r.fs) ELSE r.fs

\* (f *FlagSet) Parse(arguments): f.args = arguments, then parseOne until it
\* sees no flag; the error (ContinueOnError) is left in the result's err.
Parse(fs, arguments) == ParseLoop([fs EXCEPT !.args = arguments])

-----------------------------------------------------------------------------
(* Command.Run: the flag set, the reordering loop, the leaf execution *)

\* c.Flags with HelpFlag and BashCompletionFlag appended (Run, before flagSet)
AppendedFlags(cmd) ==
    LET withHelp == IF ~cmd.HideHelp THEN {NameHelp, NameH} ELSE {}
        withCompletion == IF cmd.EnableBashCompletion THEN {NameCompletion} ELSE {}
    IN  [n \in DOMAIN cmd.Flags \cup withHelp \cup withCompletion |->
            IF n \in DOMAIN cmd.Flags THEN cmd.Flags[n] ELSE TRUE]

\* set := flagSet(c.Name, c.Flags): every flag registered under its name, with
\* a cell of its own holding its default.
flagSet(cmd) ==
    LET fl == AppendedFlags(cmd)
    IN  [ formal |-> [n \in DOMAIN fl |-> [isBool |-> fl[n], cell |-> n]],
          store |-> [n \in DOMAIN fl |-> IF fl[n] THEN FALSE ELSE Empty],
          args |-> <<>>,
          err |-> Nil,
          log |-> <<>>,
          count |-> 0,
          hasCount |-> FALSE ]

\* Mutant of FlagName: one dash is stripped whatever the prefix.
FlagNameOneDash(val) == SliceFrom(val, 1)

\* The name Run looks up for a flag-like token: val[2:] after "--", else val[1:]
FlagName(val) ==
    IF Len(val) > 1 /\ HasPrefix(val, DashDash) THEN SliceFrom(val, 2) ELSE SliceFrom(val, 1)

\* strings.HasPrefix(val, "-"): the test that opens the loop body
IsFlagLike(val) == HasPrefix(val, Dash)

\* Mutant of PositionalIdx: a positional token always goes to flagIdx.
PositionalIdxAtFlagIdx(st) == st.flagIdx

\* Where a non-flag token goes: at flagIdx after a value-taking flag (boolF
\* false), else at the end (append is an insertion at len(flagArgs)).
PositionalIdx(st) == IF ~st.boolF THEN st.flagIdx ELSE Len(st.flagArgs)

\* One iteration of the loop over ctx.Args()[1:]. st = (flagArgs, flagIdx,
\* boolF) and origin, which follows flagArgs with the tokens' indexes.
ReorderStep(formal, st, val, i) ==
    IF IsFlagLike(val)
    THEN LET placed == [ flagArgs |-> InsertAt(st.flagArgs, st.flagIdx, val),
                         origin |-> InsertAt(st.origin, st.flagIdx, i),
                         flagIdx |-> st.flagIdx + 1,
                         boolF |-> TRUE ]
         IN  IF ~Lookup(formal, FlagName(val)) THEN placed
             ELSE IF ~formal[FlagName(val)].isBool THEN [placed EXCEPT !.boolF = FALSE]
             ELSE placed
    ELSE [ flagArgs |-> InsertAt(st.flagArgs, PositionalIdx(st), val),
           origin |-> InsertAt(st.origin, PositionalIdx(st), i),
           flagIdx |-> IF ~st.boolF THEN st.flagIdx + 1 ELSE st.flagIdx,
           boolF |-> TRUE ]

RECURSIVE ReorderLoop(_, _, _, _)
ReorderLoop(formal, a, idx, st) ==
    IF idx < Len(a)
    THEN ReorderLoop(formal, a, idx + 1, ReorderStep(formal, st, a[idx + 1], idx))
    ELSE st

\* flagArgs := []string{}; flagIdx := 0; boolF := true; for idx := 1; ...
Reorder(formal, a) ==
    ReorderLoop(formal, a, 1, [flagArgs |-> <<>>, origin |-> <<>>, flagIdx |-> 0, boolF |-> TRUE])

\* ctx.Args().Tail()
ArgsTail(a) == IF Len(a) >= 2 THEN Tail(a) ELSE <<>>

-----------------------------------------------------------------------------
(* Command.Run as a state machine *)

Commands ==
    [ Name : {CmdName},
      Subcommands : {0, 1},
      Before : {Nil, "hook"},
      Flags : FlagConfigs,
      SkipFlagParsing : BOOLEAN,
      HideHelp : {FALSE},
      EnableBashCompletion : {FALSE} ]

IsLeaf(cmd) == ~(cmd.Subcommands > 0 \/ cmd.Before # Nil)

InitRun ==
    /\ c \in Commands
    /\ args \in { <<CmdName>> \o t : t \in SeqsUpTo(Tokens, MaxArgs) }
    /\ flagArgs = <<>>
    /\ origin = <<>>
    /\ set = flagSet(c)
    /\ pc = "start"
    /\ err = Nil
    /\ nerr = Nil
    /\ actionCalls = 0
    /\ actionArgs = <<>>
    /\ ret = Nil
    /\ BoolIdle
    /\ MapIdle

\* if len(c.Subcommands) > 0 || c.Before != nil { return c.startApp(ctx) }
RunStartApp ==
    /\ pc = "start"
    /\ ~IsLeaf(c)
    /\ pc' = "startApp"
    /\ UNCHANGED <<c, args, flagArgs, origin, set, err, nerr, actionCalls, actionArgs, ret>>
    /\ UNCHANGED notRunVars

\* if !c.SkipFlagParsing { ...the reordering loop... }
RunReorder ==
    /\ pc = "start"
    /\ IsLeaf(c)
    /\ ~c.SkipFlagParsing
    /\ LET st == Reorder(set.formal, args)
       IN  /\ flagArgs' = st.flagArgs
           /\ origin' = st.origin
    /\ pc' = "reordered"
    /\ UNCHANGED <<c, args, set, err, nerr, actionCalls, actionArgs, ret>>
    /\ UNCHANGED notRunVars

\* err = set.Parse(flagArgs)
RunParseFlagArgs ==
    /\ pc = "reordered"
    /\ set' = Parse(set, flagArgs)
    /\ err' = set'.err
    /\ pc' = "parsed"
    /\ UNCHANGED <<c, args, flagArgs, origin, nerr, actionCalls, actionArgs, ret>>
    /\ UNCHANGED notRunVars

\* } else { err = set.Parse(ctx.Args().Tail()) }
RunParseTail ==
    /\ pc = "start"
    /\ IsLeaf(c)
    /\ c.SkipFlagParsing
    /\ set' = Parse(set, ArgsTail(args))
    /\ err' = set'.err
    /\ pc' = "parsed"
    /\ UNCHANGED <<c, args, flagArgs, origin, nerr, actionCalls, actionArgs, ret>>
    /\ UNCHANGED notRunVars

\* if err != nil { ...; return err }
RunParseError ==
    /\ pc = "parsed"
    /\ err # Nil
    /\ ret' = err
    /\ pc' = "returned"
    /\ UNCHANGED <<c, args, flagArgs, origin, set, err, nerr, actionCalls, actionArgs>>
    /\ UNCHANGED notRunVars

\* nerr := normalizeFlags(c.Flags, set): its outcome is an input here
RunNormalize ==
    /\ pc = "parsed"
    /\ err = Nil
    /\ \E e \in {Nil, "normalize error"} : nerr' = e
    /\ pc' = "normalized"
    /\ UNCHANGED <<c, args, flagArgs, origin, set, err, actionCalls, actionArgs, ret>>
    /\ UNCHANGED notRunVars

\* if nerr != nil { ...; return nerr }
RunNormalizeError ==
    /\ pc = "normalized"
    /\ nerr # Nil
    /\ ret' = nerr
    /\ pc' = "returned"
    /\ UNCHANGED <<c, args, flagArgs, origin, set, err, nerr, actionCalls, actionArgs>>
    /\ UNCHANGED notRunVars

\* if checkCommandCompletions(...) { return nil }; if checkCommandHelp(...) { return nil }
RunCheckReturns ==
    /\ pc = "normalized"
    /\ nerr = Nil
    /\ ret' = Nil
    /\ pc' = "returned"
    /\ UNCHANGED <<c, args, flagArgs, origin, set, err, nerr, actionCalls, actionArgs>>
    /\ UNCHANGED notRunVars

\* Mutant of RunAction: the action runs although normalizeFlags failed.
RunActionDespiteNerr ==
    /\ pc = "normalized"
    /\ actionCalls' = actionCalls + 1
    /\ actionArgs' = set.args
    /\ ret' = Nil
    /\ pc' = "returned"
    /\ UNCHANGED <<c, args, flagArgs, origin, set, err, nerr>>
    /\ UNCHANGED notRunVars

\* context.Command = c; c.Action(context); return nil
RunAction ==
    /\ pc = "normalized"
    /\ nerr = Nil
    /\ actionCalls' = actionCalls + 1
    /\ actionArgs' = set.args
    /\ ret' = Nil
    /\ pc' = "returned"
    /\ UNCHANGED <<c, args, flagArgs, origin, set, err, nerr>>
    /\ UNCHANGED notRunVars

NextRun ==
    \/ RunStartApp
    \/ RunReorder
    \/ RunParseFlagArgs
    \/ RunParseTail
    \/ RunParseError
    \/ RunNormalize
    \/ RunNormalizeError
    \/ RunCheckReturns
    \/ RunAction

SpecRun == InitRun /\ [][NextRun]_vars

-----------------------------------------------------------------------------
(* BoolFlag.Apply, the parse of the command line, lookupBool (flag_bool.go) *)

NameX == <<"x">>
Destination == <<"*", "d", "e", "s", "t">>
Garbage == <<"m", "a", "y", "b", "e">>

\* The tokens of a command line for the flag b (alias x) and what each means
\* to a reader of the command line: the name it sets and the value it gives.
BoolTokenTable ==
    { [tok |-> DashDash \o NameB, kind |-> "flag", name |-> NameB, v |-> TRUE],
      [tok |-> DashDash \o NameB \o <<"=">> \o StrFalse, kind |-> "flag", name |-> NameB, v |-> FALSE],
      [tok |-> Dash \o NameB \o <<"=", "1">>, kind |-> "flag", name |-> NameB, v |-> TRUE],
      [tok |-> Dash \o NameX, kind |-> "flag", name |-> NameX, v |-> TRUE],
      [tok |-> Dash \o NameX \o <<"=", "0">>, kind |-> "flag", name |-> NameX, v |-> FALSE],
      [tok |-> DashDash \o NameB \o <<"=">> \o Garbage, kind |-> "bad", name |-> NameB, v |-> FALSE],
      [tok |-> Pos, kind |-> "positional", name |-> Empty, v |-> FALSE] }

BoolTokens == { e.tok : e \in BoolTokenTable }

\* What flagFromEnvOrFile can return, with the boolean a non-empty value spells.
EnvTable ==
    { [val |-> Empty, ok |-> FALSE, kind |-> "absent", v |-> FALSE],
      [val |-> Empty, ok |-> TRUE, kind |-> "empty", v |-> FALSE],
      [val |-> StrTrue, ok |-> TRUE, kind |-> "value", v |-> TRUE],
      [val |-> <<"0">>, ok |-> TRUE, kind |-> "value", v |-> FALSE],
      [val |-> StrFalse, ok |-> TRUE, kind |-> "value", v |-> FALSE],
      [val |-> Garbage, ok |-> TRUE, kind |-> "bad", v |-> FALSE] }

BoolFlags ==
    [ Name : {NameB},
      Aliases : { <<>>, <<NameX>> },
      Value : BOOLEAN,
      Destination : {Nil, "dest"},
      HasBeenSet : {FALSE},
      Count : {Nil, "count"} ]

\* (f *BoolFlag) Names(): flagNames(f.Name, f.Aliases)
Names(fl) == <<fl.Name>> \o fl.Aliases

\* (f *BoolFlag) IsSet()
IsSet(fl) == fl.HasBeenSet

\* flag.NewFlagSet: no flag registered yet; *f.Count starts at 0
NewFlagSet(fl) ==
    [ formal |-> <<>>,
      store |-> <<>>,
      args |-> <<>>,
      err |-> Nil,
      log |-> <<>>,
      count |-> 0,
      hasCount |-> fl.Count # Nil ]

\* Mutant of ApplyEnv: the value is taken but HasBeenSet is left alone.
ApplyEnvNoMark(fl, env) ==
    IF env.ok /\ env.val # Empty
    THEN LET p == ParseBool(env.val)
         IN  IF ~p.ok THEN [f |-> fl, err |-> "could not parse"]
             ELSE [f |-> [fl EXCEPT !.Value = p.v], err |-> Nil]
    ELSE [f |-> fl, err |-> Nil]

\* Apply, first part: if val, ok := flagFromEnvOrFile(...); ok { if val != "" {...} }
ApplyEnv(fl, env) ==
    IF env.ok /\ env.val # Empty
    THEN LET p == ParseBool(env.val)
         IN  IF ~p.ok THEN [f |-> fl, err |-> "could not parse"]
             ELSE [f |-> [fl EXCEPT !.Value = p.v, !.HasBeenSet = TRUE], err |-> Nil]
    ELSE [f |-> fl, err |-> Nil]

\* Mutant of newBoolValue: the cell is created false whatever val is.
newBoolValueFalse(fs, val, p) == [fs EXCEPT !.store = (p :> FALSE) @@ fs.store]

\* newBoolValue(val, p, count): *p = val
newBoolValue(fs, val, p) == [fs EXCEPT !.store = (p :> val) @@ fs.store]

\* set.Var(value, name, usage) for a boolValue whose destination is p
SetVar(fs, p, nm) ==
    [fs EXCEPT !.formal = (nm :> [isBool |-> TRUE, cell |-> p]) @@ fs.formal]

\* Apply, second part: for _, name := range f.Names() { ... set.Var(value, name, f.Usage) }
RECURSIVE ApplyNames(_, _, _)
ApplyNames(fl, fs, names) ==
    IF names = <<>> THEN fs
    ELSE LET nm == Head(names)
             p == IF fl.Destination # Nil THEN Destination ELSE nm
         IN  ApplyNames(fl, SetVar(newBoolValue(fs, fl.Value, p), p, nm), Tail(names))

\* (f *BoolFlag) Apply(set)
Apply(fl, fs, env) ==
    LET e == ApplyEnv(fl, env)
    IN  IF e.err # Nil THEN [f |-> e.f, set |-> fs, err |-> e.err]
        ELSE [f |-> e.f, set |-> ApplyNames(e.f, fs, Names(e.f)), err |-> Nil]

\* (b *boolValue) String()
boolValueString(fs, nm) == FormatBool(fs.store[fs.formal[nm].cell])

\* lookupBool(name, set)
lookupBool(nm, fs) ==
    IF Lookup(fs.formal, nm)
    THEN LET p == ParseBool(boolValueString(fs, nm))
         IN  IF ~p.ok THEN FALSE ELSE p.v
    ELSE FALSE

InitBool ==
    /\ f \in BoolFlags
    /\ defaultValue = f.Value
    /\ fromEnv \in { [val |-> e.val, ok |-> e.ok] : e \in EnvTable }
    /\ cliArgs \in SeqsUpTo(BoolTokens, MaxCli)
    /\ bset = NewFlagSet(f)
    /\ bpc = "new"
    /\ applyErr = Nil
    /\ resolved = <<>>
    /\ RunIdle
    /\ MapIdle

\* f.Apply(set)
BoolApply ==
    /\ bpc = "new"
    /\ LET r == Apply(f, bset, fromEnv)
       IN  /\ f' = r.f
           /\ bset' = r.set
           /\ applyErr' = r.err
           /\ bpc' = IF r.err # Nil THEN "applyError" ELSE "applied"
    /\ UNCHANGED <<defaultValue, fromEnv, cliArgs, resolved>>
    /\ UNCHANGED notBoolVars

\* set.Parse(arguments) on the command-line tokens
BoolParse ==
    /\ bpc = "applied"
    /\ bset' = Parse(bset, cliArgs)
    /\ bpc' = "parsed"
    /\ UNCHANGED <<f, defaultValue, fromEnv, cliArgs, applyErr, resolved>>
    /\ UNCHANGED notBoolVars

\* (c *Context) Bool(name), for each name of the flag and for an unknown one
BoolLookup ==
    /\ bpc = "parsed"
    /\ resolved' = [nm \in {NameB, NameX, NameU} |-> lookupBool(nm, bset)]
    /\ bpc' = "resolved"
    /\ UNCHANGED <<f, defaultValue, fromEnv, cliArgs, bset, applyErr>>
    /\ UNCHANGED notBoolVars

NextBool ==
    \/ BoolApply
    \/ BoolParse
    \/ BoolLookup

SpecBool == InitBool /\ [][NextBool]_vars

-----------------------------------------------------------------------------
(* mapInputSource: the scalar typed getters and nestedVal.  A value of the   *)
(* tree is a node (type, val, kids): a leaf carries the name of its Go type  *)
(* and its value as text; a mapping has type "map" and its entries in kids.  *)

Dot == "."
KeyA == <<"a">>
KeyB == <<"b">>
KeyAB == <<"a", ".", "b">>

Leaf(type, val) == [type |-> type, val |-> val, kids |-> <<>>]

MapNode(kids) == [type |-> "map", val |-> "", kids |-> kids]

NilValue == [type |-> "nil", val |-> "nil", kids |-> <<>>]

\* stringGeneric is a type of the application that implements cli.Generic.
Leaves == { Leaf("int", "5"), Leaf("string", "x"), Leaf("stringGeneric", "g") }

GenericTypes == { "stringGeneric" }

\* All mappings from a subset of keys to the values.
MapsOver(keys, values) == UNION { [ks -> values] : ks \in SUBSET keys }

RECURSIVE Nested(_)
Nested(d) ==
    IF d = 0 THEN MapsOver({KeyB}, Leaves)
    ELSE MapsOver({KeyB}, Leaves \cup { MapNode(m) : m \in Nested(d - 1) })

Trees == MapsOver({KeyA, KeyAB}, Leaves \cup { MapNode(m) : m \in Nested(MaxDepth - 1) })

RECURSIVE DottedPath(_)
DottedPath(n) == IF n = 0 THEN KeyA ELSE DottedPath(n - 1) \o <<Dot>> \o KeyB

AskedNames ==
    { DottedPath(n) : n \in 0..(MaxDepth + 1) }
        \cup { KeyB, Empty, KeyA \o <<Dot>>, KeyA \o <<Dot, Dot>> \o KeyB, KeyB \o <<Dot>> \o KeyA }

\* strings.Split(s, ".")
RECURSIVE Split(_)
Split(s) ==
    LET dots == { i \in 1..Len(s) : s[i] = Dot }
    IN  IF dots = {} THEN <<s>>
        ELSE LET i == CHOOSE d \in dots : \A e \in dots : d <= e
             IN  <<SubSeq(s, 1, i - 1)>> \o Split(SubSeq(s, i + 1, Len(s)))

\* The loop of nestedVal over sections[:len(sections)-1], then the last lookup
RECURSIVE nestedWalk(_, _)
nestedWalk(node, sections) ==
    IF Len(sections) = 1
    THEN IF sections[1] \in DOMAIN node
         THEN [val |-> node[sections[1]], exists |-> TRUE]
         ELSE [val |-> NilValue, exists |-> FALSE]
    ELSE IF Head(sections) \notin DOMAIN node
         THEN [val |-> NilValue, exists |-> FALSE]
    ELSE IF node[Head(sections)].type # "map"
         THEN [val |-> NilValue, exists |-> FALSE]
    ELSE nestedWalk(node[Head(sections)].kids, Tail(sections))

\* Mutant of nestedVal: an intermediate value that is no mapping is returned
\* as if it were the value asked for.
RECURSIVE nestedWalkLeaf(_, _)
nestedWalkLeaf(node, sections) ==
    IF Len(sections) = 1
    THEN IF sections[1] \in DOMAIN node
         THEN [val |-> node[sections[1]], exists |-> TRUE]
         ELSE [val |-> NilValue, exists |-> FALSE]
    ELSE IF Head(sections) \notin DOMAIN node
         THEN [val |-> NilValue, exists |-> FALSE]
    ELSE IF node[Head(sections)].type # "map"
         THEN [val |-> node[Head(sections)], exists |-> TRUE]
    ELSE nestedWalkLeaf(node[Head(sections)].kids, Tail(sections))

nestedValLeaf(nm, tree) ==
    IF Len(Split(nm)) > 1 THEN nestedWalkLeaf(tree, Split(nm))
    ELSE [val |-> NilValue, exists |-> FALSE]

\* nestedVal(name, tree)
nestedVal(nm, tree) ==
    IF Len(Split(nm)) > 1 THEN nestedWalk(tree, Split(nm))
    ELSE [val |-> NilValue, exists |-> FALSE]

\* reflect.TypeOf(value).Name(): empty for the unnamed mapping type
TypeName(value) == IF value.type \in {"map", "nil"} THEN "" ELSE value.type

NoError == [isErr |-> FALSE, name |-> <<>>, expected |-> "", actual |-> ""]

\* incorrectTypeForFlagError(name, expectedTypeName, value)
incorrectTypeForFlagError(nm, expectedTypeName, value) ==
    [isErr |-> TRUE, name |-> nm, expected |-> expectedTypeName, actual |-> TypeName(value)]

\* The type assertion value.(T): T a concrete type, or the interface cli.Generic
IsType(value, typeName) ==
    IF typeName = "cli.Generic" THEN value.type \in GenericTypes ELSE value.type = typeName

\* The body shared, word for word, by the scalar getters Bool, Float64,
\* Generic, Int, Int64, String, Uint and Uint64.
ScalarGet(tree, nm, typeName, zero) ==
    IF nm \in DOMAIN tree
    THEN IF ~IsType(tree[nm], typeName)
         THEN [val |-> zero, err |-> incorrectTypeForFlagError(nm, typeName, tree[nm])]
         ELSE [val |-> tree[nm].val, err |-> NoError]
    ELSE LET nested == nestedVal(nm, tree)
         IN  IF nested.exists
             THEN IF ~IsType(nested.val, typeName)
                  THEN [val |-> zero, err |-> incorrectTypeForFlagError(nm, typeName, nested.val)]
                  ELSE [val |-> nested.val.val, err |-> NoError]
             ELSE [val |-> zero, err |-> NoError]

\* The scalar getters: the type each asserts and the zero value it returns.
Getters ==
    { [fn |-> "Bool", type |-> "bool", zero |-> "false"],
      [fn |-> "Float64", type |-> "float64", zero |-> "0"],
      [fn |-> "Generic", type |-> "cli.Generic", zero |-> "nil"],
      [fn |-> "Int", type |-> "int", zero |-> "0"],
      [fn |-> "Int64", type |-> "int64", zero |-> "0"],
      [fn |-> "String", type |-> "string", zero |-> ""],
      [fn |-> "Uint", type |-> "uint", zero |-> "0"],
      [fn |-> "Uint64", type |-> "uint64", zero |-> "0"] }

InitMap ==
    /\ valueMap \in Trees
    /\ key \in AskedNames
    /\ getter = Nil
    /\ result = [val |-> "", err |-> NoError]
    /\ RunIdle
    /\ BoolIdle

\* A call fsm.<fn>(name) of a scalar getter
Called(fn, typeName, zero) ==
    /\ getter = Nil
    /\ getter' = fn
    /\ result' = ScalarGet(valueMap, key, typeName, zero)
    /\ UNCHANGED <<valueMap, key>>
    /\ UNCHANGED notMapVars

\* (fsm *mapInputSource) Bool(name)
fsmBool == Called("Bool", "bool", "false")

\* (fsm *mapInputSource) Float64(name)
fsmFloat64 == Called("Float64", "float64", "0")

\* (fsm *mapInputSource) Generic(name)
fsmGeneric == Called("Generic", "cli.Generic", "nil")

\* (fsm *mapInputSource) Int(name)
fsmInt == Called("Int", "int", "0")

\* (fsm *mapInputSource) Int64(name)
fsmInt64 == Called("Int64", "int64", "0")

\* (fsm *mapInputSource) String(name)
fsmString == Called("String", "string", "")

\* (fsm *mapInputSource) Uint(name)
fsmUint == Called("Uint", "uint", "0")

\* (fsm *mapInputSource) Uint64(name)
fsmUint64 == Called("Uint64", "uint64", "0")

NextMap ==
    \/ fsmBool
    \/ fsmFloat64
    \/ fsmGeneric
    \/ fsmInt
    \/ fsmInt64
    \/ fsmString
    \/ fsmUint
    \/ fsmUint64

SpecMap == InitMap /\ [][NextMap]_vars

-----------------------------------------------------------------------------
(* Properties of Command.Run *)

\* The tokens that follow the command name.
tail == ArgsTail(args)

\* The reordering loop has run (leaf command, SkipFlagParsing unset).
Reordered == IsLeaf(c) /\ ~c.SkipFlagParsing /\ pc # "start"

\* A token with the prefix "-".
FlagLikeToken(tok) == Len(tok) >= 1 /\ tok[1] = "-"

\* A token that is one or two dashes followed by the name of a registered
\* flag that takes a value.
ValueFlagToken(tok) ==
    \E nm \in DOMAIN set.formal :
        /\ ~set.formal[nm].isBool
        /\ tok = Dash \o nm \/ tok = DashDash \o nm

\* The place in flagArgs of the token that was tail[i].
PlaceOf(i) == CHOOSE k \in 1..Len(origin) : origin[k] = i

\* The token tail[i] is the companion value of the value-taking flag before it.
Consumed(i) == i > 1 /\ ValueFlagToken(tail[i - 1]) /\ ~FlagLikeToken(tail[i])

\* C1: after the reordering, every non-flag token that directly followed a
\* registered value-taking flag token in the arguments stands directly after
\* that flag token in the sequence handed to the parser.
C1_ValuePairedWithFlag ==
    Reordered =>
        \A i \in 1..(Len(tail) - 1) :
            (ValueFlagToken(tail[i]) /\ ~FlagLikeToken(tail[i + 1])) =>
                \E k \in 1..(Len(flagArgs) - 1) :
                    /\ origin[k] = i
                    /\ origin[k + 1] = i + 1
                    /\ flagArgs[k] = tail[i]
                    /\ flagArgs[k + 1] = tail[i + 1]

\* A value was relocated: it followed its flag behind a positional token.
C1_Witness ==
    /\ Reordered
    /\ \E i \in 2..(Len(tail) - 1) :
          /\ ~FlagLikeToken(tail[1])
          /\ ValueFlagToken(tail[i])
          /\ ~FlagLikeToken(tail[i + 1])
          /\ PlaceOf(i) < i

\* C2: reordering the reordered sequence again gives the same sequence.
C2_ReorderIdempotent ==
    Reordered => Reorder(set.formal, <<c.Name>> \o flagArgs).flagArgs = flagArgs

\* The first pass moved tokens, one of them the value of a value-taking flag.
C2_Witness ==
    /\ Reordered
    /\ flagArgs # tail
    /\ \E i \in 1..Len(tail) : Consumed(i)

\* C3: the reordered sequence is a permutation of the tokens after the command
\* name in which the flag-like tokens keep their relative order, and so do the
\* non-flag tokens that are not the companion value of a flag.
C3_PermutationStable ==
    Reordered =>
        /\ Len(flagArgs) = Len(tail)
        /\ Len(origin) = Len(tail)
        /\ { origin[k] : k \in 1..Len(origin) } = 1..Len(tail)
        /\ \A k \in 1..Len(origin) : flagArgs[k] = tail[origin[k]]
        /\ \A k1, k2 \in 1..Len(origin) :
              (k1 < k2 /\ FlagLikeToken(flagArgs[k1]) /\ FlagLikeToken(flagArgs[k2]))
                  => origin[k1] < origin[k2]
        /\ \A k1, k2 \in 1..Len(origin) :
              (/\ k1 < k2
               /\ ~FlagLikeToken(flagArgs[k1]) /\ ~Consumed(origin[k1])
               /\ ~FlagLikeToken(flagArgs[k2]) /\ ~Consumed(origin[k2]))
                  => origin[k1] < origin[k2]

\* Two positional tokens and a flag-like token that was moved before them.
C3_Witness ==
    /\ Reordered
    /\ Len(tail) = 3
    /\ ~FlagLikeToken(tail[1])
    /\ ~FlagLikeToken(tail[2])
    /\ FlagLikeToken(tail[3])
    /\ origin = <<3, 1, 2>>

\* C7: under SkipFlagParsing the tokens are neither reordered nor parsed as
\* flags, and the action receives all of them unchanged.
C7_SkipIsPassthrough ==
    (IsLeaf(c) /\ c.SkipFlagParsing /\ pc \in {"parsed", "normalized", "returned"}) =>
        /\ flagArgs = <<>>
        /\ err = Nil
        /\ set.log = <<>>
        /\ actionCalls = 1 => actionArgs = tail

\* C8: a leaf command invokes its action at most once and never after set.Parse
\* or normalizeFlags returned an error; Run then returns that error.
C8_FailFast ==
    IsLeaf(c) =>
        /\ actionCalls <= 1
        /\ (err # Nil \/ nerr # Nil) => actionCalls = 0
        /\ (pc = "returned" /\ err # Nil) => ret = err
        /\ (pc = "returned" /\ err = Nil /\ nerr # Nil) => ret = nerr
        /\ (pc = "returned" /\ actionCalls = 1) => ret = Nil

\* Run returned the parser's error without invoking the action.
C8_Witness ==
    /\ IsLeaf(c)
    /\ pc = "returned"
    /\ err # Nil
    /\ ret = err
    /\ actionCalls = 0

\* C9: a registered value-taking flag that is the last token is left unpaired:
\* no non-flag token stands directly after it in the reordered sequence, and
\* the parser reports the missing value.
C9_TrailingValueFlagUnpaired ==
    (Reordered /\ Len(tail) >= 1 /\ ValueFlagToken(tail[Len(tail)])) =>
        /\ Len(origin) = Len(tail)
        /\ LET k == PlaceOf(Len(tail))
           IN  k = Len(flagArgs) \/ FlagLikeToken(flagArgs[k + 1])
        /\ pc \in {"parsed", "normalized", "returned"} => err # Nil

\* The arguments with every "-" and every empty token replaced by an ordinary
\* positional token.
AsPositional(a) == [i \in 1..Len(a) |-> IF i > 1 /\ a[i] \in {Dash, Empty} THEN Pos ELSE a[i]]

\* C10: the reorderer places a token that is "-" or empty exactly as it
\* places any other non-flag token.
C10_DashAndEmptyArePositional ==
    Reordered => origin = Reorder(set.formal, AsPositional(args)).origin

-----------------------------------------------------------------------------
(* Properties of the resolution of a boolean flag *)

\* What a token of the command line means.
TokEntry(tok) == CHOOSE e \in BoolTokenTable : e.tok = tok

\* The place of the first positional token (the parser stops there).
FirstPositional ==
    LET places == { i \in 1..Len(cliArgs) : TokEntry(cliArgs[i]).kind = "positional" }
    IN  IF places = {} THEN Len(cliArgs) + 1
        ELSE CHOOSE i \in places : \A j \in places : i <= j

\* The names of the flag.
FlagNames == { f.Name } \cup { f.Aliases[i] : i \in 1..Len(f.Aliases) }

\* The places of the command-line tokens that give a value to the flag as
\* looked up under nm: the tokens spelled with nm and, when the flag has a
\* Destination (one storage cell for all its names), with any of its names.
CliSupplies(nm) ==
    { i \in 1..(FirstPositional - 1) :
        LET e == TokEntry(cliArgs[i])
        IN  e.kind = "flag" /\ (e.name = nm \/ (f.Destination # Nil /\ e.name \in FlagNames)) }

\* What the environment or the file supplied.
EnvEntry == CHOOSE e \in EnvTable : e.val = fromEnv.val /\ e.ok = fromEnv.ok

\* The value of the highest-priority source that supplied one.
Expected(nm) ==
    IF CliSupplies(nm) # {}
    THEN TokEntry(cliArgs[CHOOSE i \in CliSupplies(nm) : \A j \in CliSupplies(nm) : j <= i]).v
    ELSE IF EnvEntry.kind = "value" THEN EnvEntry.v
    ELSE defaultValue

C5_IsSetIffAnySource ==
    (bpc = "resolved" /\ bset.err = Nil) =>
        (IsSet(f) <=> (EnvEntry.kind = "value" \/ \E nm \in FlagNames : CliSupplies(nm) # {}))

\* C5 as amended: once Apply has run, IsSet() is true exactly when the
\* environment or the file supplied a non-empty value that is a boolean;
\* the tokens of the command line do not change it.
C5_IsSetIffEnvOrFile ==
    bpc \in {"applied", "applyError", "parsed", "resolved"} =>
        (IsSet(f) <=> EnvEntry.kind = "value")

\* Only a command-line token supplied the value, and IsSet() is false.
C5_Witness ==
    /\ bpc = "resolved"
    /\ bset.err = Nil
    /\ EnvEntry.kind = "absent"
    /\ CliSupplies(NameB) # {}
    /\ resolved[NameB] # defaultValue
    /\ ~IsSet(f)

-----------------------------------------------------------------------------
(* Properties of the scalar getters of mapInputSource *)

\* segs joined by dots.
RECURSIVE Join(_)
Join(segs) ==
    IF Len(segs) = 1 THEN segs[1] ELSE segs[1] \o <<Dot>> \o Join(Tail(segs))

\* The dot-free segments a name of the model can be made of.
Segments == { KeyA, KeyB, Empty }

\* The ways to read nm as a dotted path of two or more segments.
PathsOf(nm) ==
    { segs \in SeqsUpTo(Segments, MaxDepth + 2) : Len(segs) > 1 /\ Join(segs) = nm }

\* The values reached from node along segs through mappings only.
RECURSIVE Reach(_, _)
Reach(node, segs) ==
    IF Head(segs) \notin DOMAIN node THEN {}
    ELSE IF Len(segs) = 1 THEN { node[Head(segs)] }
    ELSE IF node[Head(segs)].type = "map" THEN Reach(node[Head(segs)].kids, Tail(segs))
    ELSE {}

\* The values that exist under nm: at the top level, else along its dotted path.
Found(nm) ==
    IF nm \in DOMAIN valueMap THEN { valueMap[nm] }
    ELSE UNION { Reach(valueMap, segs) : segs \in PathsOf(nm) }

\* The getter that was called.
CalledGetter == CHOOSE g \in Getters : g.fn = getter

\* The value has the kind the getter asks for.
HasKind(v, g) ==
    \/ g.type = "cli.Generic" /\ v.type = "stringGeneric"
    \/ g.type # "cli.Generic" /\ v.type = g.type

\* C6: a scalar getter returns the zero value and no error when nothing exists
\* under the name, at the top level or along its dotted path; it returns an
\* error only when a value exists there whose type is not the kind asked for,
\* and the error names the full key.
C6_MissingIsNotAnError ==
    getter # Nil =>
        /\ Found(key) = {} => result = [val |-> CalledGetter.zero, err |-> NoError]
        /\ result.err.isErr =>
              /\ \E v \in Found(key) : ~HasKind(v, CalledGetter)
              /\ result.err.name = key
              /\ result.err.expected = CalledGetter.type
        /\ \A v \in Found(key) :
              /\ HasKind(v, CalledGetter) => result = [val |-> v.val, err |-> NoError]
              /\ ~HasKind(v, CalledGetter) => result.err.isErr

\* Int("a.b") where a holds a string, not a mapping: zero and no error.
C6_Witness ==
    /\ getter = "Int"
    /\ key = KeyAB
    /\ KeyAB \notin DOMAIN valueMap
    /\ KeyA \in DOMAIN valueMap
    /\ valueMap[KeyA].type = "string"
    /\ result = [val |-> "0", err |-> NoError]

====
